---- MODULE Spec2Model ----
(***************************************************************************)
(* Model of aislib's Router (src/router.go): the function that checks one  *)
(* NMEA 0183 / AIS sentence and returns a Message or an error.  Sentences  *)
(* are TLA+ strings, tokenised and sliced the way the Go code does it.     *)
(***************************************************************************)
EXTENDS Integers, Sequences, FiniteSets, TLC

\* ------------------------------------------------------------- bounds

\* Number of consecutive Router calls recorded in a behaviour.
MaxCalls == 4

\* The same when the unusual sentences are fed as well.
MaxOddCalls == 2

\* ------------------------------------------------------ the state

VARIABLES
    input,      \* the argument of the last call
    msg,        \* the *Message it returned
    err,        \* the error it returned
    crashed,    \* the call panicked: the process is gone
    locals,     \* Router's locals when the last call ended
    trace       \* every call so far: its argument and what came back

vars == << input, msg, err, crashed, locals, trace >>

\* ------------------------------------------------------ text helpers

\* The printable ASCII characters in code order: 32 (space) to 95, and 97
\* to 126 (the grave accent, 96, does not occur in a sentence here).
AsciiLow == " !\"#$%&'()*+,-./0123456789:;<=>?@ABCDEFGHIJKLMNOPQRSTUVWXYZ[\\]^_"
AsciiHigh == "abcdefghijklmnopqrstuvwxyz{|}~"

\* s[i-1] of Go, as a one-character string (i is 1-based).
Char(s, i) == SubSeq(s, i, i)

\* Byte value of a one-character string.
Ord ==
    [c \in {Char(AsciiLow, i) : i \in 1..Len(AsciiLow)}
           \cup {Char(AsciiHigh, i) : i \in 1..Len(AsciiHigh)} |->
        IF \E i \in 1..Len(AsciiLow) : Char(AsciiLow, i) = c
        THEN 31 + (CHOOSE i \in 1..Len(AsciiLow) : Char(AsciiLow, i) = c)
        ELSE 96 + (CHOOSE i \in 1..Len(AsciiHigh) : Char(AsciiHigh, i) = c)]

\* The slice s[lo:hi] of Go (0-based, hi exclusive) for 0 <= lo <= hi <= len(s).
Slice(s, lo, hi) == SubSeq(s, lo + 1, hi)

\* strings.Split(s, sep) for a one-character sep: the fields between the
\* separators, empty fields included; Split("", sep) is <<"">>.
Split(s, sep) ==
    LET at == {i \in 1..Len(s) : Char(s, i) = sep}
        \* position of the k-th separator; 0 and Len(s)+1 bracket the text
        pos(k) == IF k = 0 THEN 0
                  ELSE IF k > Cardinality(at) THEN Len(s) + 1
                  ELSE CHOOSE i \in at : Cardinality({j \in at : j <= i}) = k
    IN  [k \in 1..(Cardinality(at) + 1) |-> SubSeq(s, pos(k - 1) + 1, pos(k) - 1)]

\* Bitwise exclusive or of two bytes.
Xor(a, b) ==
    LET bit(k) == ((a \div k) + (b \div k)) % 2
    IN  bit(1) + 2 * bit(2) + 4 * bit(4) + 8 * bit(8) + 16 * bit(16)
          + 32 * bit(32) + 64 * bit(64) + 128 * bit(128)

\* XOR of the byte values of s[i..j] (1-based, inclusive).
XorBytes(s, i, j) ==
    LET x[k \in (i - 1)..j] ==
            IF k < i THEN 0 ELSE Xor(x[k - 1], Ord[Char(s, k)])
    IN  IF j < i THEN 0 ELSE x[j]

HexDigits == "0123456789ABCDEF"

\* Value of a hexadecimal digit, or -1.
HexVal(c) ==
    IF \E i \in 1..16 : Char(HexDigits, i) = c
    THEN (CHOOSE i \in 1..16 : Char(HexDigits, i) = c) - 1
    ELSE IF c \in {"a", "b", "c", "d", "e", "f"} THEN Ord[c] - 87
    ELSE -1

\* The checksum collaborator: the sentence ends in *HH and HH is the XOR of
\* the bytes between the leading !/$ and the *.
Nmea183ChecksumCheck(s) ==
    LET n == Len(s)
    IN  /\ n >= 4
        /\ Char(s, n - 2) = "*"
        /\ HexVal(Char(s, n - 1)) >= 0
        /\ HexVal(Char(s, n)) >= 0
        /\ 16 * HexVal(Char(s, n - 1)) + HexVal(Char(s, n))
             = XorBytes(s, 2, n - 3)

\* The payload classifier: the 6-bit value of the first payload character.
MessageType(p) ==
    IF Len(p) = 0 THEN 0
    ELSE LET v == Ord[Char(p, 1)] - 48
         IN  IF v > 40 THEN v - 8 ELSE v

Digits == {"0", "1", "2", "3", "4", "5", "6", "7", "8", "9"}

\* Value of a non-empty string of decimal digits.
DigitsVal(s) ==
    LET v[k \in 0..Len(s)] ==
            IF k = 0 THEN 0 ELSE 10 * v[k - 1] + (Ord[Char(s, k)] - 48)
    IN  v[Len(s)]

\* strconv.Atoi: an optional sign followed by one or more decimal digits;
\* anything else is an error and the value 0.
Atoi(s) ==
    LET signed == Len(s) > 0 /\ Char(s, 1) \in {"+", "-"}
        d      == IF signed THEN SubSeq(s, 2, Len(s)) ELSE s
        ok     == Len(d) > 0 /\ \A i \in 1..Len(d) : Char(d, i) \in Digits
        v      == DigitsVal(d)
    IN  IF ~ok THEN [err |-> TRUE, val |-> 0]
        ELSE [err |-> FALSE,
              val |-> IF signed /\ Char(s, 1) = "-" THEN 0 - v ELSE v]

\* ------------------------------------------------------ Go values

\* A nil pointer / nil error, and a non-nil one holding x.
Nil == << >>
Ptr(x) == << x >>

\* type Message struct { Type uint8; Payload string; Padding uint8 }
Message(t, p, pad) == [Type |-> t % 256, Payload |-> p, Padding |-> pad % 256]

\* errors.New(text): a non-nil error that holds the text and nothing else.
New(text) == Ptr([s |-> text])

\* var cache [5]string
CacheLen == 5

aisIdentifiers ==
    {"ABVD", "ADVD", "AIVD", "ANVD", "ARVD", "ASVD", "ATVD", "AXVD", "BSVD", "SAVD"}

\* The locals of Router as its declarations initialise them at every call.
Locals ==
    [count |-> 0, ccount |-> 0, padding |-> 0, size |-> "0", id |-> "0",
     payload |-> "", cache |-> [i \in 0..(CacheLen - 1) |-> ""]]

\* What a call leaves: the returned pair, whether it panicked instead of
\* returning, and the locals as they were at that point.
Return(L, m, e) == [msg |-> m, err |-> e, panic |-> FALSE, locals |-> L]
Panic(L) == [msg |-> Nil, err |-> Nil, panic |-> TRUE, locals |-> L]

\* Lines 91-104: the fragment is taken into the session held in L.
Accumulate(sentence, tokens, L) ==
    IF Len(tokens) < 6 THEN Panic(L)                       \* tokens[5]
    ELSE LET L1 == [L EXCEPT !.payload = @ \o tokens[6]]
         IN  IF L1.ccount - 1 \notin 0..(CacheLen - 1) THEN Panic(L1)
             ELSE LET L2 == [L1 EXCEPT !.cache[L1.ccount - 1] = sentence,
                                       !.count = @ + 1]
                  IN  IF L2.ccount = 1
                      THEN Return([L2 EXCEPT !.size = tokens[2], !.id = tokens[4]],
                                  Ptr(Message(255, "", 0)), Nil)
                      ELSE IF L2.size = tokens[3] /\ L2.count = L2.ccount
                      THEN IF Len(tokens) < 7 \/ Len(tokens[7]) < 1 THEN Panic(L2)
                           ELSE LET L3 == [L2 EXCEPT
                                             !.padding = Atoi(Slice(tokens[7], 0, 1)).val,
                                             !.count = 0,
                                             !.payload = ""]
                                IN  Return(L3,
                                           Ptr(Message(MessageType(L3.payload),
                                                       L3.payload, L3.padding)),
                                           Nil)
                      ELSE Return(L2, Ptr(Message(255, "", 0)), Nil)

\* Lines 75-90 without the test that fails an index other than 1 when the
\* session is empty.
SpanAcceptsAnyIndex(sentence, tokens, L) ==
    IF Len(tokens) < 3 THEN Panic(L)
    ELSE LET a  == Atoi(tokens[3])
             L1 == [L EXCEPT !.ccount = a.val]
         IN  IF a.err THEN Return(L1, Nil, New("here: " \o tokens[3]))
             ELSE IF L1.ccount = L1.count + 1 /\ Len(tokens) < 4
             THEN Panic(L1)
             ELSE IF \/ L1.ccount # L1.count + 1
                     \/ (tokens[4] # L1.id /\ L1.count # 0)
                     \/ (tokens[2] # L1.size /\ L1.count # 0)
             THEN IF L1.count > 0
                  THEN Return(L1, Nil, New("incomplete/out of order span sentence"))
                  ELSE Accumulate(sentence, tokens,
                                  [L1 EXCEPT !.count = 0, !.payload = ""])
             ELSE Accumulate(sentence, tokens, L1)

\* Lines 75-90: the fragment index is parsed and checked against the session.
Span(sentence, tokens, L) ==
    IF Len(tokens) < 3 THEN Panic(L)                       \* tokens[2]
    ELSE LET a  == Atoi(tokens[3])
             L1 == [L EXCEPT !.ccount = a.val]
         IN  IF a.err THEN Return(L1, Nil, New("here: " \o tokens[3]))
             ELSE IF L1.ccount = L1.count + 1 /\ Len(tokens) < 4
             THEN Panic(L1)                                \* tokens[3]
             ELSE IF \/ L1.ccount # L1.count + 1
                     \/ (tokens[4] # L1.id /\ L1.count # 0)
                     \/ (tokens[2] # L1.size /\ L1.count # 0)
             THEN IF L1.count > 0
                  THEN Return(L1, Nil, New("incomplete/out of order span sentence"))
                  ELSE IF L1.ccount # 1
                  THEN Return(L1, Nil, New("incomplete/out of order span sentence"))
                  ELSE Accumulate(sentence, tokens,
                                  [L1 EXCEPT !.count = 0, !.payload = ""])
             ELSE Accumulate(sentence, tokens, L1)

\* Lines 59-73, then the span path: Router run on locals L.
Process(sentence, L) ==
    LET tokens == Split(sentence, ",")
    IN  IF Len(sentence) = 0 THEN Return(L, Nil, New("empty line"))
        ELSE IF ~Nmea183ChecksumCheck(sentence)
        THEN Return(L, Nil, New("checksum failed"))
        ELSE IF Len(tokens[1]) < 5 THEN Panic(L)           \* tokens[0][1:5]
        ELSE IF Slice(tokens[1], 1, 5) \notin aisIdentifiers
        THEN Return(L, Nil, New("sentence isn't AIVDM/AIVDO"))
        ELSE IF Len(tokens) < 2 THEN Panic(L)              \* tokens[1]
        ELSE IF tokens[2] = "1"
        THEN IF Len(tokens) < 6 THEN Panic(L)              \* tokens[5]
             ELSE Return(L, Ptr(Message(MessageType(tokens[6]), tokens[6],
                                        L.padding)), Nil)
        ELSE Span(sentence, tokens, L)

\* Router with the accumulated payload kept from one call to the next and
\* put in front of whatever the call returns.
RouterMerging(sentence) ==
    LET r == Process(sentence, Locals)
    IN  IF r.msg = Nil THEN r
        ELSE [r EXCEPT !.msg = Ptr([r.msg[1] EXCEPT
                                      !.Payload = locals.payload \o @])]

\* Router with the session kept from one call to the next, a rejection as
\* out of order emptying it.
RouterResetOnReject(sentence) ==
    LET r == Process(sentence, locals)
    IN  IF r.err = New("incomplete/out of order span sentence")
        THEN [r EXCEPT !.locals = Locals]
        ELSE r

\* Router with the Padding of every Message read from the first character
\* of field 6, when the sentence has one.
RouterParsesPadding(sentence) ==
    LET r == Process(sentence, Locals)
        tokens == Split(sentence, ",")
    IN  IF r.msg = Nil \/ Len(tokens) < 7 \/ Len(tokens[7]) < 1 THEN r
        ELSE [r EXCEPT !.msg = Ptr([r.msg[1] EXCEPT
                 !.Padding = Atoi(Slice(tokens[7], 0, 1)).val % 256])]

\* Router with the identifier filter run before the checksum check.
RouterIdFirst(sentence) ==
    LET tokens == Split(sentence, ",")
    IN  IF /\ Len(sentence) > 0
           /\ Len(tokens[1]) >= 5
           /\ Slice(tokens[1], 1, 5) \notin aisIdentifiers
        THEN Return(Locals, Nil, New("sentence isn't AIVDM/AIVDO"))
        ELSE Process(sentence, Locals)

\* Router with the session kept from one call to the next.
RouterKeepsSession(sentence) == Process(sentence, locals)

\* func Router(sentence string) (*Message, error)
Router(sentence) == Process(sentence, Locals)

\* ------------------------------------------------------ the inputs

\* Two upper-case hexadecimal digits of a byte.
Hex2(n) == Char(HexDigits, (n \div 16) + 1) \o Char(HexDigits, (n % 16) + 1)

\* body followed by its *HH checksum, and by a checksum that is off by one bit.
Frame(body) == body \o "*" \o Hex2(XorBytes(body, 2, Len(body)))
Corrupt(body) == body \o "*" \o Hex2(Xor(XorBytes(body, 2, Len(body)), 1))

\* A self-contained sentence.
Single == Frame("!AIVDM,1,1,,A,15,0")
\* Fragments 1 and 2 of the two-part message with sequence id 3.
FragA1 == Frame("!AIVDM,2,1,3,A,5a,0")
FragA2 == Frame("!AIVDM,2,2,3,A,b,2")
\* Fragment 2 of that message with a damaged checksum.
FragA2Bad == Corrupt("!AIVDM,2,2,3,A,b,2")
\* Fragments 1 and 2 of the two-part message with sequence id 4.
FragB1 == Frame("!AIVDM,2,1,4,B,6c,0")
FragB2 == Frame("!AIVDM,2,2,4,B,d,4")
\* Index 2 of sequence 3 declaring three parts, and index 3 of two.
WrongTotal == Frame("!AIVDM,3,2,3,A,e,0")
WrongIndex == Frame("!AIVDM,2,3,3,A,f,0")
\* NMEA traffic that is not AIS, and a fragment whose index is not a number.
NonAis == Frame("$GPGGA,2,2,3,A,x,0")
BadIndex == Frame("!AIVDM,2,x,3,A,q,0")
\* Sentences with too few fields, or too short a field 0, all checksum-valid.
ShortTag == Frame("!AI,1,1,,A,15,0")
OneField == Frame("!AIVDM")
SingleShort == Frame("!AIVDM,1,")
SpanShort == Frame("!AIVDM,2,1,")

Sentences ==
    {"", Single, FragA1, FragA2, FragA2Bad, FragB1, FragB2, WrongTotal,
     WrongIndex, NonAis, BadIndex, ShortTag, OneField, SingleShort, SpanShort}

\* Unusual field contents: a damaged checksum on non-AIS traffic, a single
\* sentence with a non-numeric field 2 and a field 6 starting with 7,
\* fragment indices 0, -1 and 6, and a two-part message whose field 6
\* starts with 9.
BadBoth == Corrupt("$GPGGA,2,2,3,A,x,0")
SingleOdd == Frame("!AIVDM,1,x,,A,15,7")
IndexZero == Frame("!AIVDM,2,0,3,A,h,0")
IndexNeg == Frame("!AIVDM,2,-1,3,A,i,0")
IndexSix == Frame("!AIVDM,2,6,3,A,j,0")
FragC1 == Frame("!AIVDM,2,1,5,A,7k,9")
FragC2 == Frame("!AIVDM,2,2,5,A,l,9")

OddSentences ==
    {BadBoth, SingleOdd, IndexZero, IndexNeg, IndexSix, FragC1, FragC2}

AllSentences == Sentences \cup OddSentences

Init ==
    /\ input = ""
    /\ msg = Nil
    /\ err = Nil
    /\ crashed = FALSE
    /\ locals = Locals
    /\ trace = << >>

\* ------------------------------------------------------ the calls

\* Router is a function of its argument: its results over the inputs.
Outcomes == {<< s, Router(s) >> : s \in AllSentences}
Outcome(s) == (CHOOSE p \in Outcomes : p[1] = s)[2]

\* The caller passes s to Router and keeps what comes back.
Feed(s) ==
    /\ ~crashed
    /\ LET r == Outcome(s)
       IN  /\ input' = s
           /\ msg' = r.msg
           /\ err' = r.err
           /\ crashed' = r.panic
           /\ locals' = r.locals
           /\ trace' = Append(trace, [sentence |-> s, msg |-> r.msg,
                                      err |-> r.err, panic |-> r.panic])

\* One call of Router by the caller that feeds it sentences in order.
Call(s) == Len(trace) < MaxCalls /\ Feed(s)

Next == \E s \in Sentences : Call(s)

Spec == Init /\ [][Next]_vars

\* One call with any of the sentences, the unusual ones included.
CallAny(s) == Len(trace) < MaxOddCalls /\ Feed(s)

NextAny == \E s \in AllSentences : CallAny(s)

SpecAny == Init /\ [][NextAny]_vars

TypeOK ==
    /\ input \in AllSentences
    /\ crashed \in BOOLEAN
    /\ Len(trace) <= MaxCalls

\* ------------------------------------------------------ reading a trace

\* The fields of a sentence, and the sentences of calls i..j.
Fields(s) == Split(s, ",")
Said(i, j) == [k \in 1..(j - i + 1) |-> trace[i + k - 1].sentence]

\* Field 0 carries one of the AIS identifiers after its first character.
Recognized(s) ==
    /\ Len(Fields(s)[1]) >= 5
    /\ Slice(Fields(s)[1], 1, 5) \in aisIdentifiers

\* Non-empty, checksum-valid and recognised.
Valid(s) == Len(s) > 0 /\ Nmea183ChecksumCheck(s) /\ Recognized(s)

\* Checksum-valid NMEA traffic whose identifier is not an AIS one.
NotAis(s) ==
    /\ Len(s) > 0
    /\ Nmea183ChecksumCheck(s)
    /\ Len(Fields(s)[1]) >= 5
    /\ Slice(Fields(s)[1], 1, 5) \notin aisIdentifiers

\* A valid sentence that declares itself self-contained.
IsSingle(s) == Valid(s) /\ Len(Fields(s)) >= 2 /\ Fields(s)[2] = "1"

\* A valid, complete fragment of a message of several sentences.
IsSpan(s) ==
    /\ Valid(s)
    /\ Len(Fields(s)) >= 7
    /\ Fields(s)[2] # "1"
    /\ ~Atoi(Fields(s)[3]).err

Index(s) == Atoi(Fields(s)[3]).val
Total(s) == Fields(s)[2]
SeqId(s) == Fields(s)[4]

\* Fragments k = 1..Len(ss) of one message, in order, agreeing on the
\* sequence id and on the declared total.
Consistent(ss) ==
    \A k \in 1..Len(ss) :
        /\ IsSpan(ss[k])
        /\ Index(ss[k]) = k
        /\ Total(ss[k]) = Total(ss[1])
        /\ SeqId(ss[k]) = SeqId(ss[1])

\* A whole message of N >= 2 fragments.
IsRun(ss) ==
    /\ Len(ss) >= 2
    /\ Consistent(ss)
    /\ Atoi(Total(ss[1])) = [err |-> FALSE, val |-> Len(ss)]

\* The field-5 values of ss, concatenated in order.
RunPayload(ss) ==
    LET c[k \in 0..Len(ss)] ==
            IF k = 0 THEN "" ELSE c[k - 1] \o Fields(ss[k])[6]
    IN  c[Len(ss)]

\* The digit at the start of field 6 of the last fragment.
RunPadding(ss) == Atoi(Slice(Fields(ss[Len(ss)])[7], 0, 1)).val

\* The call's result r is the Message reassembled from ss.
Completed(r, ss) ==
    /\ ~r.panic
    /\ r.err = Nil
    /\ r.msg # Nil
    /\ r.msg[1].Payload = RunPayload(ss)
    /\ r.msg[1].Padding = RunPadding(ss)

Rejected(r, text) == ~r.panic /\ r.msg = Nil /\ r.err = New(text)

\* ------------------------------------------------------ the claims

\* C1: N >= 2 fragments fed in consecutive calls, indices 1..N in order, same
\* sequence id and same declared total N: the N-th call returns the Message
\* whose Payload is the fragments' field 5 concatenated and whose Padding is
\* the digit at the start of the last fragment's field 6.
C1_InOrderRunCompletes ==
    \A i, j \in 1..Len(trace) :
        (i < j /\ IsRun(Said(i, j))) => Completed(trace[j], Said(i, j))

\* C2: every non-empty sentence with a valid checksum, a recognised identifier
\* and field 1 = "1" gets, in its own call and whatever was fed before, the
\* Message (classifier(field 5), field 5, 0) and no error.
C2_SingleYieldsMessage ==
    \A i \in 1..Len(trace) :
        LET s == trace[i].sentence
        IN  IsSingle(s) =>
              /\ ~trace[i].panic
              /\ trace[i].err = Nil
              /\ Len(Fields(s)) >= 6
              /\ trace[i].msg
                   = Ptr(Message(MessageType(Fields(s)[6]), Fields(s)[6], 0))

\* C3: the Payload of every Message returned is field 5 of the single
\* sentence of that call, or the in-order concatenation of field 5 of the
\* fragments of one message fed up to that call (of none of them: the empty
\* payload); it never holds text of two logical messages.  Stated of the
\* latest call in every reachable state, that is of every call.
C3_NoMerge ==
    LET j == Len(trace)
    IN  msg # Nil =>
            LET p == msg[1].Payload
            IN  \/ IsSingle(input) /\ Len(Fields(input)) >= 6
                     /\ p = Fields(input)[6]
                \/ \E i \in 1..(j + 1) :
                       /\ Consistent(Said(i, j))
                       /\ p = RunPayload(Said(i, j))

\* C3 witness: first fragments of two different messages were fed, and the
\* call after them returned a Message with payload text.
C3_Witness ==
    \E i, j \in 1..Len(trace) :
        /\ i < j /\ j < Len(trace)
        /\ IsSpan(trace[i].sentence) /\ Index(trace[i].sentence) = 1
        /\ IsSpan(trace[j].sentence) /\ Index(trace[j].sentence) = 1
        /\ SeqId(trace[i].sentence) # SeqId(trace[j].sentence)
        /\ msg # Nil
        /\ msg[1].Payload # ""

\* C4: a sentence failing the checksum is rejected with "checksum failed" and
\* leaves the session alone: fragment 1 of 2, a corrupted sentence, then the
\* correct fragment 2 return the Message of fragments 1 and 2.
C4_ChecksumFailureKeepsSession ==
    \A i \in 1..Len(trace) :
        (/\ i + 2 <= Len(trace)
         /\ IsRun(<< trace[i].sentence, trace[i + 2].sentence >>)
         /\ Len(trace[i + 1].sentence) > 0
         /\ ~Nmea183ChecksumCheck(trace[i + 1].sentence))
        => /\ Rejected(trace[i + 1], "checksum failed")
           /\ Completed(trace[i + 2],
                        << trace[i].sentence, trace[i + 2].sentence >>)

\* C5: a fragment with a wrong index, sequence id or declared total arriving
\* while a session is in progress resets it: the message fed next, from its
\* index-1 fragment on, completes with the payload of its own fragments only.
C5_DesyncThenCleanSession ==
    \A i, j \in 1..Len(trace) :
        (/\ i + 2 < j
         /\ IsSpan(trace[i].sentence) /\ Index(trace[i].sentence) = 1
         /\ IsSpan(trace[i + 1].sentence)
         /\ \/ Index(trace[i + 1].sentence) # 2
            \/ SeqId(trace[i + 1].sentence) # SeqId(trace[i].sentence)
            \/ Total(trace[i + 1].sentence) # Total(trace[i].sentence)
         /\ IsRun(Said(i + 2, j)))
        => Completed(trace[j], Said(i + 2, j))

\* C6: a call on any non-empty text returns (a Message, pending or a failure)
\* and never crashes, so that the next sentence can be processed.
C6_NeverCrashes == ~crashed /\ \A i \in 1..Len(trace) : ~trace[i].panic

\* C7: an accepted fragment that does not complete its message yields the
\* pending outcome: no Message and no error.
C7_PendingIsNoMessage ==
    \A i \in 1..Len(trace) :
        LET s == trace[i].sentence
        IN  (IsSpan(s) /\ Index(s) = 1 /\ ~Atoi(Total(s)).err
               /\ Atoi(Total(s)).val >= 2)
            => /\ ~trace[i].panic
               /\ trace[i].msg = Nil
               /\ trace[i].err = Nil

\* C8: a Message is returned only for a single sentence or for the last
\* fragment of a message, and never with Type 255, the end-of-input mark.
C8_MessageOnlyOnCompletion ==
    \A j \in 1..Len(trace) :
        trace[j].msg # Nil =>
            /\ trace[j].msg[1].Type # 255
            /\ \/ IsSingle(trace[j].sentence)
               \/ \E i \in 1..j : i < j /\ IsRun(Said(i, j))

\* C9: a checksum-valid sentence with an unrecognised identifier is rejected
\* with "sentence isn't AIVDM/AIVDO" and leaves the session alone: a message
\* whose fragments are interleaved with such sentences still completes.
C9_NonAisKeepsSession ==
    \A i, j \in 1..Len(trace) :
        LET ss   == Said(i, j)
            kept == SelectSeq(ss, LAMBDA s : ~NotAis(s))
        IN  (/\ i < j
             /\ Len(kept) < Len(ss)
             /\ ~NotAis(trace[i].sentence)
             /\ ~NotAis(trace[j].sentence)
             /\ IsRun(kept))
            => /\ \A k \in i..j :
                     NotAis(trace[k].sentence)
                       => Rejected(trace[k], "sentence isn't AIVDM/AIVDO")
               /\ Completed(trace[j], kept)

\* C10: every failure carries the raw sentence and a reason, the pair
\* (Sentence, Issue) of FailedSentence.
C10_FailureCarriesSentence ==
    \A i \in 1..Len(trace) :
        trace[i].err # Nil =>
            /\ {"Sentence", "Issue"} \subseteq DOMAIN trace[i].err[1]
            /\ trace[i].err[1].Sentence = trace[i].sentence

\* C11: a sentence that Router rejects and that is fed again in the very next
\* call is rejected again with the same reason, whatever the session was.
C11_RejectionIdempotent ==
    LET n == Len(trace)
    IN  (/\ n >= 2
         /\ trace[n - 1].err # Nil
         /\ trace[n - 1].sentence = input)
        => /\ ~crashed
           /\ msg = Nil
           /\ err = trace[n - 1].err

\* C11 witness: with a first fragment accepted before, a sentence was
\* rejected as out of order twice in a row.
C11_Witness ==
    LET n == Len(trace)
    IN  /\ n >= 3
        /\ IsSpan(trace[n - 2].sentence) /\ Index(trace[n - 2].sentence) = 1
        /\ trace[n - 2].err = Nil
        /\ trace[n - 1].sentence = input
        /\ Rejected(trace[n - 1], "incomplete/out of order span sentence")
        /\ err = New("incomplete/out of order span sentence")

\* C12: the Padding of every Message returned is in 0..5, whatever field 6
\* of the sentence holds.
C12_PaddingInRange == msg # Nil => msg[1].Padding \in 0..5

\* C12 witness: a Message came back from a sentence whose field 6 starts
\* with a character other than 0..5.
C12_Witness ==
    /\ msg # Nil
    /\ Len(Fields(input)) >= 7
    /\ Len(Fields(input)[7]) >= 1
    /\ Slice(Fields(input)[7], 0, 1) \notin {"0", "1", "2", "3", "4", "5"}

\* C13: the checks run in the order emptiness, checksum, identifier, single
\* sentence, fragment index, and the first one that fails gives the reason:
\* the empty text gives "empty line"; a bad checksum gives "checksum failed"
\* also when the identifier is unrecognised; a single sentence is returned
\* as a Message also when its field 2 is no number.
C13_EarliestCheckDecides ==
    Len(trace) >= 1 =>
        /\ Len(input) = 0 => Rejected(trace[Len(trace)], "empty line")
        /\ (Len(input) > 0 /\ ~Nmea183ChecksumCheck(input))
             => Rejected(trace[Len(trace)], "checksum failed")
        /\ NotAis(input)
             => Rejected(trace[Len(trace)], "sentence isn't AIVDM/AIVDO")
        /\ (IsSingle(input) /\ Len(Fields(input)) >= 6)
             => ~crashed /\ err = Nil /\ msg # Nil
        /\ (/\ Valid(input)
            /\ Len(Fields(input)) >= 3
            /\ Fields(input)[2] # "1"
            /\ Atoi(Fields(input)[3]).err)
             => Rejected(trace[Len(trace)], "here: " \o Fields(input)[3])

\* C13 witness: a sentence with a bad checksum and an unrecognised
\* identifier was rejected for its checksum, and then a single sentence with
\* a non-numeric field 2 came back as a Message.
C13_Witness ==
    /\ Len(trace) = 2
    /\ ~Nmea183ChecksumCheck(trace[1].sentence)
    /\ Len(Fields(trace[1].sentence)[1]) >= 5
    /\ Slice(Fields(trace[1].sentence)[1], 1, 5) \notin aisIdentifiers
    /\ Rejected(trace[1], "checksum failed")
    /\ IsSingle(input)
    /\ Atoi(Fields(input)[3]).err
    /\ msg # Nil

\* C14: a valid fragment with a numeric index k other than 1 is rejected with
\* "incomplete/out of order span sentence" exactly when it breaks
\* continuity: k is not the index the session expects, or its sequence id or
\* its declared total is not the stored one.  Stated for the session that
\* the first fragment fed in the call before has opened (expected index 2).
C14_ContinuityDecides ==
    \A i \in 1..Len(trace) :
        (/\ i < Len(trace)
         /\ IsSpan(trace[i].sentence) /\ Index(trace[i].sentence) = 1
         /\ IsSpan(trace[i + 1].sentence) /\ Index(trace[i + 1].sentence) # 1)
        => (Rejected(trace[i + 1], "incomplete/out of order span sentence")
              <=> \/ Index(trace[i + 1].sentence) # 2
                  \/ SeqId(trace[i + 1].sentence) # SeqId(trace[i].sentence)
                  \/ Total(trace[i + 1].sentence) # Total(trace[i].sentence))

\* The fragment fed in call i + 1 breaks the session that the first fragment
\* fed in call i has opened.
Desync(i) ==
    /\ i < Len(trace)
    /\ IsSpan(trace[i].sentence) /\ Index(trace[i].sentence) = 1
    /\ IsSpan(trace[i + 1].sentence)
    /\ \/ Index(trace[i + 1].sentence) # 2
       \/ SeqId(trace[i + 1].sentence) # SeqId(trace[i].sentence)
       \/ Total(trace[i + 1].sentence) # Total(trace[i].sentence)

\* C15: a desynchronising fragment with index 1 abandons the session in
\* progress and opens a new one of its own (expected index 2, its total and
\* id, its field 5 as payload), so that its fragment 2 fed next completes
\* the message of these two; one with another index is failed and leaves
\* the session empty, so that no index other than 1 is accepted next.
C15_DesyncRestartsOrEmpties ==
    \A i \in 1..Len(trace) :
        Desync(i) =>
            IF Index(trace[i + 1].sentence) = 1
            THEN /\ ~trace[i + 1].panic
                 /\ trace[i + 1].err = Nil
                 /\ (/\ i + 2 <= Len(trace)
                     /\ IsRun(Said(i + 1, i + 2)))
                      => Completed(trace[i + 2], Said(i + 1, i + 2))
            ELSE /\ Rejected(trace[i + 1],
                             "incomplete/out of order span sentence")
                 /\ (/\ i + 2 <= Len(trace)
                     /\ IsSpan(trace[i + 2].sentence)
                     /\ Index(trace[i + 2].sentence) # 1)
                      => Rejected(trace[i + 2],
                                  "incomplete/out of order span sentence")

\* C16: completing a message empties the session: of two whole messages fed
\* back to back, the second returns a Message made of its own field-5 values
\* only, also when the sequence ids or the declared totals differ.
C16_CompletionResets ==
    \A i, j, k \in 1..Len(trace) :
        (/\ i < j /\ j + 1 < k
         /\ IsRun(Said(i, j))
         /\ IsRun(Said(j + 1, k)))
        => Completed(trace[k], Said(j + 1, k))

\* C17: a valid fragment whose field 2 is no decimal integer is rejected
\* with "here: " and field 2, and the session stays as it was: the fragment
\* that continues the message in progress still completes it.
C17_BadIndexKeepsSession ==
    \A i \in 1..Len(trace) :
        (/\ Valid(trace[i].sentence)
         /\ Len(Fields(trace[i].sentence)) >= 3
         /\ Fields(trace[i].sentence)[2] # "1"
         /\ Atoi(Fields(trace[i].sentence)[3]).err)
        => /\ Rejected(trace[i], "here: " \o Fields(trace[i].sentence)[3])
           /\ (/\ 1 < i /\ i < Len(trace)
               /\ IsRun(<< trace[i - 1].sentence, trace[i + 1].sentence >>))
                => Completed(trace[i + 1],
                             << trace[i - 1].sentence, trace[i + 1].sentence >>)

====
